---- MODULE Spec2Model ----
(***************************************************************************)
(* shell_gpt: the command line entry point sgpt/app.py (main) together     *)
(* with the collaborators it drives: the Role Registry, the Disk Cache,    *)
(* the Chat Session Store, the Completion Handler, the REPL Driver and     *)
(* the Shell Execution Loop.                                               *)
(*                                                                         *)
(* main is translated from src/sgpt/app.py.  The handlers, the roles, the  *)
(* cache and the session store live in modules that app.py only imports    *)
(* (sgpt.handlers.*, sgpt.role, sgpt.utils); they are modelled from        *)
(* sections 4.1 - 4.6 of the specification.                                *)
(*                                                                         *)
(* One behaviour is a sequence of invocations of main by one interactive   *)
(* user: the durable chat sessions and the cache persist from one          *)
(* invocation to the next, everything else is local to an invocation.      *)
(*                                                                         *)
(* Inputs held at their defaults: --model, --temperature and               *)
(* --top-probability (lines 33-48) and --image (lines 162-181, image_url   *)
(* and max_tokens stay None).  Durable storage is taken to be readable.    *)
(* The REPL Driver is the loop of section 4.5: the prompt given on the     *)
(* command line with --repl plays no part in it, and its Exited state ends *)
(* the process (line 201: the loop runs until the user leaves it).         *)
(*                                                                         *)
(* Spec takes each handle call as one step.  FairSpec is Spec with a user  *)
(* who eventually ends the Shell Execution Loop.  InterruptSpec takes the  *)
(* handle calls of the REPL and of the loop step by step, under interrupt  *)
(* signals.                                                                *)
(***************************************************************************)
EXTENDS Integers, Sequences, FiniteSets, TLC

(***************************************************************************)
(* Bounds of the model.                                                    *)
(***************************************************************************)
MaxInvocations == 2   \* invocations of main in one behaviour
MaxReplTurns == 2     \* lines read by one REPL
MaxDescribes == 2     \* "d" choices in one Shell Execution Loop

(***************************************************************************)
(* Values.  Python's None is the string "None"; the empty string and None  *)
(* are the falsy strings.                                                  *)
(***************************************************************************)
None == "None"
Truthy(x) == x \notin {None, ""}

Prompts == {None, "p1"}              \* the PROMPT argument
ReplLines == {"p1", "p2"}            \* lines typed at the REPL
EditedPrompt == "p2"                 \* what get_edited_prompt() returns
StdinText == "in"                    \* what sys.stdin.read() returns
ChatIds == {"c1", "temp"}            \* session identifiers
RoleNames == {"r1", "r0"}            \* values of --role
StoredRoles == {"r1"}                \* custom roles in durable role storage
Texts == {"t1", "t2"}                \* texts the remote model may produce
Fail == "GenerationError"            \* the remote boundary failing
RemoteOutcomes == Texts \cup {Fail}
Options == {"e", "d", "a", "y"}      \* Choice(("e", "d", "a", "y"))

DefaultModel == "gpt-4"              \* cfg.get("DEFAULT_MODEL")
DefaultTemperature == 0              \* temperature option default
DefaultTopProbability == 1           \* top_probability option default

(***************************************************************************)
(* Roles (specification, section 3: name, kind).                           *)
(***************************************************************************)
Role(kind, name) == [kind |-> kind, name |-> name]
DEFAULT == Role("default-plain", "ShellGPT")
SHELL == Role("default-shell", "Shell Command Generator")
DESCRIBE_SHELL == Role("default-describe-shell", "Shell Command Descriptor")
CODE == Role("default-code", "Code Generator")
BuiltinRoles == {DEFAULT, SHELL, DESCRIBE_SHELL, CODE}
NoRole == Role("none", None)

\* DefaultRoles.check_get(shell, describe_shell, code): the built-in role of
\* the set flag, the plain default when none is set.
check_get(shell, describe_shell, code) ==
    IF shell THEN SHELL
    ELSE IF describe_shell THEN DESCRIBE_SHELL
    ELSE IF code THEN CODE
    ELSE DEFAULT

\* SystemRole.get(role): the persisted custom role of that name, or
\* NoRole when durable role storage holds none (the lookup fails).
SystemRole_get(role) ==
    IF role \in StoredRoles THEN Role("custom", role) ELSE NoRole

(***************************************************************************)
(* Messages and sessions (specification, section 3).                       *)
(***************************************************************************)
Message(role, content) == [role |-> role, content |-> content]
SystemMessage(role) == Message("system", role.name)
UserMessage(prompt) == Message("user", prompt)
AssistantMessage(text) == Message("assistant", text)

HasSystem(messages) == \E i \in 1..Len(messages) : messages[i].role = "system"

EmptySessions == [id \in ChatIds |-> <<>>]

\* Chat Session Store: load(chat_id), empty for an unseen chat_id.
load(sessions, chat_id) == sessions[chat_id]

\* append putting the message in front of the session
append_front(sessions, chat_id, message) ==
    [sessions EXCEPT ![chat_id] = <<message>> \o @]

\* Chat Session Store: append(chat_id, message).
append(sessions, chat_id, message) ==
    [sessions EXCEPT ![chat_id] = Append(@, message)]

(***************************************************************************)
(* Disk Cache (specification, section 4.2).  The cache is a function from  *)
(* fingerprints to texts.                                                  *)
(***************************************************************************)
EmptyCache == {}

\* The fingerprint: the ordered tuple of everything that affects generation.
Fingerprint(role, messages, model, temperature, top_p) ==
    <<role.name, messages, model, temperature, top_p>>

Cached(cache, fp) == \E e \in cache : e.fp = fp
CachedText(cache, fp) == (CHOOSE e \in cache : e.fp = fp).text
Store(cache, fp, text) ==
    {e \in cache : e.fp # fp} \cup {[fp |-> fp, text |-> text]}

\* get_or_compute(fingerprint, compute_fn, use_cache).  compute_fn is the
\* remote model boundary; outcome is what it produces if it is invoked.
\*   use_cache false: always invokes compute_fn, cache neither read nor written
\*   hit:             the stored text, compute_fn not invoked
\*   miss:            invokes compute_fn, stores the result, returns it
get_or_compute(cache, fp, outcome, use_cache) ==
    IF use_cache /\ Cached(cache, fp)
    THEN [ok |-> TRUE, text |-> CachedText(cache, fp), cache |-> cache,
          invoked |-> FALSE]
    ELSE IF outcome = Fail
    THEN [ok |-> FALSE, text |-> None, cache |-> cache, invoked |-> TRUE]
    ELSE [ok |-> TRUE, text |-> outcome,
          cache |-> IF use_cache THEN Store(cache, fp, outcome) ELSE cache,
          invoked |-> TRUE]

(***************************************************************************)
(* Completion Handler (specification, section 4.4):                        *)
(* handle(prompt, role, model, temperature, top_p, chat_id, use_cache).    *)
(***************************************************************************)
\* Steps 1-3: the message list of the request.
make_messages(sessions, prompt, role, chat_id) ==
    LET prior == IF chat_id # None THEN load(sessions, chat_id) ELSE <<>>
        first == IF HasSystem(prior) THEN prior
                 ELSE <<SystemMessage(role)>> \o prior
    IN  Append(first, UserMessage(prompt))

\* Step 6: the commit, made only after a response was obtained: the
\* messages of this turn (the system message on a first turn, then the user
\* message) and the assistant message are appended to the session.
commit(sessions, chat_id, messages, text) ==
    IF chat_id = None THEN sessions
    ELSE LET prior == load(sessions, chat_id)
             turn == IF HasSystem(prior)
                     THEN <<messages[Len(messages)]>>
                     ELSE <<messages[1], messages[Len(messages)]>>
             withTurn == IF Len(turn) = 1
                         THEN append(sessions, chat_id, turn[1])
                         ELSE append(append(sessions, chat_id, turn[1]),
                                     chat_id, turn[2])
         IN  append(withTurn, chat_id, AssistantMessage(text))

\* Step 6, first half: the messages of this turn but the assistant's are in
\* the session, the assistant message is not yet.
commit_user(sessions, chat_id, messages) ==
    IF chat_id = None THEN sessions
    ELSE LET prior == load(sessions, chat_id)
         IN  IF HasSystem(prior)
             THEN append(sessions, chat_id, messages[Len(messages)])
             ELSE append(append(sessions, chat_id, messages[1]),
                         chat_id, messages[Len(messages)])

\* handle appending the user message to the session before the remote
\* boundary is called, so that a failed call leaves it behind
handle_user_first(sessions, cache, prompt, role, model, temperature, top_p, chat_id, use_cache, outcome) ==
    LET messages == make_messages(sessions, prompt, role, chat_id)
        fp == Fingerprint(role, messages, model, temperature, top_p)
        r == get_or_compute(cache, fp, outcome, use_cache)
    IN  [ok |-> r.ok, text |-> r.text, fp |-> fp, invoked |-> r.invoked,
         role |-> role, prompt |-> prompt, chat_id |-> chat_id,
         use_cache |-> use_cache, cache |-> r.cache,
         sessions |-> IF r.ok THEN commit(sessions, chat_id, messages, r.text)
                      ELSE IF chat_id = None THEN sessions
                      ELSE append(sessions, chat_id, UserMessage(prompt))]

\* handle: the text, the sessions and the cache after the call, whether the
\* remote boundary was invoked, and the request as it was received.  On a
\* remote failure the call fails and nothing is committed.
handle(sessions, cache, prompt, role, model, temperature, top_p, chat_id, use_cache, outcome) ==
    LET messages == make_messages(sessions, prompt, role, chat_id)
        fp == Fingerprint(role, messages, model, temperature, top_p)
        r == get_or_compute(cache, fp, outcome, use_cache)
    IN  [ok |-> r.ok, text |-> r.text, fp |-> fp, invoked |-> r.invoked,
         role |-> role, prompt |-> prompt, chat_id |-> chat_id,
         use_cache |-> use_cache, cache |-> r.cache,
         sessions |-> IF r.ok THEN commit(sessions, chat_id, messages, r.text)
                      ELSE sessions]

(***************************************************************************)
(* main (src/sgpt/app.py).                                                 *)
(***************************************************************************)
VARIABLES
    pc,               \* where main is: "idle" (not running), "repl" (inside
                      \* ReplHandler.handle), "generate" (line 211),
                      \* "prompting" (line 234), "done", "error"
    args,             \* the parameters of this invocation
    stdin_passed,     \* line 143
    prompt,           \* the local prompt, after lines 146 and 184
    role_class,       \* lines 186-190
    full_completion,  \* lines 212 and 223
    err,              \* the exception that ended the invocation
    sessions,         \* Chat Session Store: chat_id -> messages
    cache,            \* Disk Cache: set of [fp, text]
    calls,            \* the handle calls of this invocation, in order
    turns,            \* per chat_id, the successful handle calls main made
                      \* for it since the session was created, in order
    loop_sessions,    \* the sessions when the Shell Execution Loop began
    options,          \* the choices given to typer.prompt, in order
    executed,         \* the commands run_command was given, in order
    sessions0,        \* the sessions when this invocation started
    cache0,           \* the cache when this invocation started
    served,           \* per fingerprint, the completed caching requests
    invocations,      \* invocations started so far
    inflight          \* the handle call in progress, step by step, and the
                      \* interrupt signal waiting to be honored

vars == <<pc, args, stdin_passed, prompt, role_class, full_completion, err,
          sessions, cache, calls, turns, loop_sessions, options, executed,
          sessions0, cache0, served, invocations, inflight>>

Args == [prompt : Prompts, shell : BOOLEAN, describe_shell : BOOLEAN,
         code : BOOLEAN, editor : BOOLEAN, cache : BOOLEAN,
         chat : {None} \cup ChatIds, repl : {None} \cup ChatIds,
         tokenize : BOOLEAN, role : {None} \cup RoleNames]

\* The parameters of the invocations that follow the first one of a
\* behaviour: a prompt, with or without a chat session, cached or not.
FollowUpArgs ==
    {a \in Args : /\ a.prompt = "p1"
                  /\ ~a.shell /\ ~a.describe_shell /\ ~a.code /\ ~a.editor
                  /\ a.repl = None /\ ~a.tokenize /\ a.role = None}

\* What the n-th invocation may be given: the parameters and whether
\* standard input is piped.
Inputs(n) ==
    IF n = 0 THEN Args \X BOOLEAN ELSE FollowUpArgs \X {FALSE}

NoArgs == [prompt |-> None, shell |-> FALSE, describe_shell |-> FALSE,
           code |-> FALSE, editor |-> FALSE, cache |-> TRUE, chat |-> None,
           repl |-> None, tokenize |-> FALSE, role |-> None]

Error(type, line) == [type |-> type, line |-> line]
NoError == Error("None", 0)

\* sum((shell, describe_shell, code))
FlagSum(shell, describe_shell, code) ==
    (IF shell THEN 1 ELSE 0) + (IF describe_shell THEN 1 ELSE 0)
        + (IF code THEN 1 ELSE 0)

\* lines 145-146: piped input is put in front of the prompt, except for a REPL
stdin_prompt(a, piped) ==
    IF piped /\ ~Truthy(a.repl)
    THEN StdinText \o "\n\n" \o (IF Truthy(a.prompt) THEN a.prompt ELSE "")
    ELSE a.prompt

\* the check of line 151 written as "> 2": only the triple is refused
flag_conflict_triple(shell, describe_shell, code) ==
    FlagSum(shell, describe_shell, code) > 2

\* line 151: more than one of --shell, --describe-shell, --code
flag_conflict(shell, describe_shell, code) ==
    FlagSum(shell, describe_shell, code) > 1

\* lines 148-160: the first check that raises, NoError when none does
validate(a, piped) ==
    IF ~Truthy(stdin_prompt(a, piped)) /\ ~a.editor /\ ~Truthy(a.repl)
    THEN Error("MissingParameter", 149)
    ELSE IF flag_conflict(a.shell, a.describe_shell, a.code)
    THEN Error("BadArgumentUsage", 152)
    ELSE IF Truthy(a.chat) /\ Truthy(a.repl)
    THEN Error("BadArgumentUsage", 157)
    ELSE IF a.editor /\ piped
    THEN Error("BadArgumentUsage", 160)
    ELSE NoError

\* lines 183-184
edited_prompt(a, piped) ==
    IF a.editor THEN EditedPrompt ELSE stdin_prompt(a, piped)

\* lines 186-190 falling back to the built-in role when the lookup fails
resolve_role_fallback(shell, describe_shell, code, role) ==
    IF ~Truthy(role) \/ SystemRole_get(role) = NoRole
    THEN check_get(shell, describe_shell, code)
    ELSE SystemRole_get(role)

\* lines 186-190 with the condition on a set flag first: a flag wins over
\* --role
resolve_role_flag_first(shell, describe_shell, code, role) ==
    IF shell \/ describe_shell \/ code \/ ~Truthy(role)
    THEN check_get(shell, describe_shell, code)
    ELSE SystemRole_get(role)

\* lines 186-190 with the flags handed to check_get in another order
resolve_role_swapped(shell, describe_shell, code, role) ==
    IF ~Truthy(role) THEN check_get(describe_shell, shell, code)
    ELSE SystemRole_get(role)

\* lines 186-190: the role of the invocation; NoRole when the lookup failed
resolve_role(shell, describe_shell, code, role) ==
    IF ~Truthy(role) THEN check_get(shell, describe_shell, code)
    ELSE SystemRole_get(role)

\* lines 202-209 with the temporary session for chat_id
ReplHandler_handle_temp(ss, ch, a, role, line, outcome) ==
    handle(ss, ch, line, role, DefaultModel, DefaultTemperature,
           DefaultTopProbability, "temp", a.cache, outcome)

\* lines 202-209: ReplHandler(repl, role_class).handle(...), one turn of it
ReplHandler_handle(ss, ch, a, role, line, outcome) ==
    handle(ss, ch, line, role, DefaultModel, DefaultTemperature,
           DefaultTopProbability, a.repl, a.cache, outcome)

\* lines 212-221 without chat_id=chat
ChatHandler_handle_no_id(ss, ch, a, role, text, outcome) ==
    handle(ss, ch, text, role, DefaultModel, DefaultTemperature,
           DefaultTopProbability, None, a.cache, outcome)

\* lines 212-221: ChatHandler(chat, role_class).handle(...)
ChatHandler_handle(ss, ch, a, role, text, outcome) ==
    handle(ss, ch, text, role, DefaultModel, DefaultTemperature,
           DefaultTopProbability, a.chat, a.cache, outcome)

\* lines 223-231 with caching=False whatever --cache says
DefaultHandler_handle_uncached(ss, ch, a, role, text, outcome) ==
    handle(ss, ch, text, role, DefaultModel, DefaultTemperature,
           DefaultTopProbability, None, FALSE, outcome)

\* lines 223-231 with caching=True whatever --cache says
DefaultHandler_handle_cached(ss, ch, a, role, text, outcome) ==
    handle(ss, ch, text, role, DefaultModel, DefaultTemperature,
           DefaultTopProbability, None, TRUE, outcome)

\* lines 223-231: DefaultHandler(role_class).handle(...)
DefaultHandler_handle(ss, ch, a, role, text, outcome) ==
    handle(ss, ch, text, role, DefaultModel, DefaultTemperature,
           DefaultTopProbability, None, a.cache, outcome)

\* lines 245-252 with chat_id=chat, as the primary call has it
describe_handle_in_chat(ss, ch, a, command, outcome) ==
    handle(ss, ch, command, DESCRIBE_SHELL, DefaultModel, DefaultTemperature,
           DefaultTopProbability, IF Truthy(a.chat) THEN a.chat ELSE None,
           a.cache, outcome)

\* lines 245-252: DefaultHandler(DefaultRoles.DESCRIBE_SHELL.get_role())
\* .handle(full_completion, ...)
describe_handle(ss, ch, a, command, outcome) ==
    handle(ss, ch, command, DESCRIBE_SHELL, DefaultModel, DefaultTemperature,
           DefaultTopProbability, None, a.cache, outcome)

\* a handle call as the handler received it, with the session it found
Call(handler, before, r) ==
    [handler |-> handler, role |-> r.role, prompt |-> r.prompt,
     chat_id |-> r.chat_id, use_cache |-> r.use_cache, ok |-> r.ok,
     invoked |-> r.invoked, text |-> r.text, fp |-> r.fp, before |-> before]

\* the completed requests of invocations with caching enabled, per
\* fingerprint: how many there were, how many of them invoked the remote
\* boundary, and the texts they returned
Serve(sv, caching, r) ==
    IF ~(caching /\ r.ok) THEN sv
    ELSE LET old == {e \in sv : e.fp = r.fp}
             o == IF old = {}
                  THEN [fp |-> r.fp, n |-> 0, remote |-> 0, texts |-> {}]
                  ELSE CHOOSE e \in old : TRUE
         IN  (sv \ old) \cup
             {[fp |-> r.fp, n |-> o.n + 1,
               remote |-> o.remote + (IF r.invoked THEN 1 ELSE 0),
               texts |-> o.texts \cup {r.text}]}

\* a successful call main made for session id (None: for no session)
Turn(ts, id, role, text, r) ==
    IF id = None \/ ~r.ok THEN ts
    ELSE [ts EXCEPT ![id] = Append(@, [role |-> role, prompt |-> text,
                                        text |-> r.text])]

NoTurns == [id \in ChatIds |-> <<>>]

\* no handle call in progress, no interrupt waiting
NoCall == [signal |-> FALSE, site |-> None, text |-> None, r |-> <<>>]

Init ==
    /\ pc = "idle"
    /\ args = NoArgs
    /\ stdin_passed = FALSE
    /\ prompt = None
    /\ role_class = NoRole
    /\ full_completion = None
    /\ err = NoError
    /\ sessions = EmptySessions
    /\ cache = EmptyCache
    /\ calls = <<>>
    /\ turns = NoTurns
    /\ loop_sessions = EmptySessions
    /\ options = <<>>
    /\ executed = <<>>
    /\ sessions0 = EmptySessions
    /\ cache0 = EmptyCache
    /\ served = {}
    /\ invocations = 0
    /\ inflight = NoCall

\* lines 192-200 with the test for --repl made before the one for --tokenize
after_resolve_repl_first(a) ==
    IF Truthy(a.repl) THEN "repl"
    ELSE IF a.tokenize THEN "done"
    ELSE "generate"

\* lines 192-200: --tokenize returns at line 198, before --repl is looked at
after_resolve(a) ==
    IF a.tokenize THEN "done"
    ELSE IF Truthy(a.repl) THEN "repl"
    ELSE "generate"

\* lines 143-198: the checks, the role and --tokenize
Start ==
    /\ pc = "idle"
    /\ invocations < MaxInvocations
    /\ \E in \in Inputs(invocations) :
        LET a == in[1]
            piped == in[2]
            e == validate(a, piped)
            p == edited_prompt(a, piped)
            rc == resolve_role(a.shell, a.describe_shell, a.code, a.role)
        IN  /\ args' = a
            /\ stdin_passed' = piped
            /\ IF e # NoError
               THEN /\ pc' = "error"
                    /\ err' = e
                    /\ prompt' = stdin_prompt(a, piped)
                    /\ role_class' = NoRole
               ELSE IF rc = NoRole
               THEN /\ pc' = "error"
                    /\ err' = Error("NotFoundError", 189)
                    /\ prompt' = p
                    /\ role_class' = NoRole
               ELSE IF a.tokenize /\ p = None
               THEN /\ pc' = "error"
                    /\ err' = Error("TypeError", 194)
                    /\ prompt' = p
                    /\ role_class' = rc
               ELSE /\ pc' = after_resolve(a)
                    /\ err' = NoError
                    /\ prompt' = p
                    /\ role_class' = rc
    /\ invocations' = invocations + 1
    /\ sessions0' = sessions
    /\ cache0' = cache
    /\ loop_sessions' = sessions
    /\ UNCHANGED inflight
    /\ UNCHANGED <<full_completion, sessions, cache, calls, turns, options,
                   executed, served>>

\* a handle call made by main: handler is the handler's class, id the
\* session main made the call for, text the prompt, r what handle returned
Handled(handler, id, text, r) ==
    /\ calls' = Append(calls, Call(handler,
                                   IF id = None THEN <<>> ELSE sessions[id],
                                   r))
    /\ turns' = Turn(turns, id, role_class, text, r)
    /\ sessions' = r.sessions
    /\ cache' = r.cache
    /\ served' = Serve(served, args.cache, r)
    /\ err' = IF r.ok THEN NoError ELSE Error(Fail, 0)

\* lines 200-209, one turn of the REPL Driver: Reading, Generating, Printed
ReplLine ==
    /\ pc = "repl"
    /\ Len(calls) < MaxReplTurns
    /\ \E line \in ReplLines, outcome \in RemoteOutcomes :
        LET r == ReplHandler_handle(sessions, cache, args, role_class, line,
                                    outcome)
        IN  /\ Handled("ReplHandler", args.repl, line, r)
            /\ pc' = IF r.ok THEN "repl" ELSE "error"
    /\ UNCHANGED inflight
    /\ UNCHANGED <<args, stdin_passed, prompt, role_class, full_completion,
                   loop_sessions, options, executed, sessions0, cache0,
                   invocations>>

\* ReplHandler.handle returning to main when the loop ends: main goes on at
\* line 211
ExitedReturns == "generate"

\* REPL Driver, Exited: terminal, the process returns control to its caller
\* (main has nothing to run after it)
Exited == "done"

\* lines 200-209, the REPL Driver's Exited: empty input, end of input or an
\* interrupt ends the loop and the process with it
ReplExit ==
    /\ pc = "repl"
    /\ pc' = Exited
    /\ UNCHANGED inflight
    /\ UNCHANGED <<args, stdin_passed, prompt, role_class, full_completion,
                   err, sessions, cache, calls, turns, loop_sessions, options,
                   executed, sessions0, cache0, served, invocations>>

\* line 233 without "and not stdin_passed"
after_generate_piped(shell, piped) ==
    IF shell THEN "prompting" ELSE "done"

\* line 233: the Shell Execution Loop is entered or main returns
after_generate(shell, piped) ==
    IF shell /\ ~piped THEN "prompting" ELSE "done"

\* lines 211-221
ChatGenerate ==
    /\ pc = "generate"
    /\ Truthy(args.chat)
    /\ \E outcome \in RemoteOutcomes :
        LET r == ChatHandler_handle(sessions, cache, args, role_class, prompt,
                                    outcome)
        IN  /\ Handled("ChatHandler", args.chat, prompt, r)
            /\ full_completion' = r.text
            /\ loop_sessions' = r.sessions
            /\ pc' = IF r.ok THEN after_generate(args.shell, stdin_passed)
                     ELSE "error"
    /\ UNCHANGED inflight
    /\ UNCHANGED <<args, stdin_passed, prompt, role_class, options, executed,
                   sessions0, cache0, invocations>>

\* lines 222-231
DefaultGenerate ==
    /\ pc = "generate"
    /\ ~Truthy(args.chat)
    /\ \E outcome \in RemoteOutcomes :
        LET r == DefaultHandler_handle(sessions, cache, args, role_class,
                                       prompt, outcome)
        IN  /\ Handled("DefaultHandler", None, prompt, r)
            /\ full_completion' = r.text
            /\ loop_sessions' = r.sessions
            /\ pc' = IF r.ok THEN after_generate(args.shell, stdin_passed)
                     ELSE "error"
    /\ UNCHANGED inflight
    /\ UNCHANGED <<args, stdin_passed, prompt, role_class, options, executed,
                   sessions0, cache0, invocations>>

Count(seq, S) == Cardinality({i \in 1..Len(seq) : seq[i] \in S})

\* lines 234-243 with the break of line 254 missed: the loop prompts again
\* after the command has run
ShellExecuteAgain ==
    /\ pc = "prompting"
    /\ Len(executed) <= MaxDescribes
    /\ \E option \in {"e", "y"} : options' = Append(options, option)
    /\ executed' = Append(executed, full_completion)
    /\ pc' = "prompting"
    /\ UNCHANGED inflight
    /\ UNCHANGED <<args, stdin_passed, prompt, role_class, full_completion,
                   err, sessions, cache, calls, turns, loop_sessions,
                   sessions0, cache0, served, invocations>>

\* lines 234-243 and 254: "e" or "y" runs the command and leaves the loop
ShellExecute ==
    /\ pc = "prompting"
    /\ \E option \in {"e", "y"} : options' = Append(options, option)
    /\ executed' = Append(executed, full_completion)
    /\ pc' = "done"
    /\ UNCHANGED inflight
    /\ UNCHANGED <<args, stdin_passed, prompt, role_class, full_completion,
                   err, sessions, cache, calls, turns, loop_sessions,
                   sessions0, cache0, served, invocations>>

\* lines 244-253 with the describe call's result assigned to full_completion
ShellDescribeOverwrites ==
    /\ pc = "prompting"
    /\ Count(options, {"d"}) < MaxDescribes
    /\ options' = Append(options, "d")
    /\ \E outcome \in RemoteOutcomes :
        LET r == describe_handle(sessions, cache, args, full_completion,
                                 outcome)
        IN  /\ Handled("Describe", None, full_completion, r)
            /\ pc' = IF r.ok THEN "prompting" ELSE "error"
            /\ full_completion' = IF r.ok THEN r.text ELSE full_completion
    /\ UNCHANGED inflight
    /\ UNCHANGED <<args, stdin_passed, prompt, role_class,
                   loop_sessions, executed, sessions0, cache0, invocations>>

\* lines 244-253 without the call of lines 245-252: "d" only prompts again
ShellDescribeSkipsCall ==
    /\ pc = "prompting"
    /\ Count(options, {"d"}) < MaxDescribes
    /\ options' = Append(options, "d")
    /\ pc' = "prompting"
    /\ UNCHANGED inflight
    /\ UNCHANGED <<args, stdin_passed, prompt, role_class, full_completion,
                   err, sessions, cache, calls, turns, served,
                   loop_sessions, executed, sessions0, cache0, invocations>>

\* lines 244-253 without the continue of line 253: the break of line 254 is
\* reached after the describe call
ShellDescribeBreaks ==
    /\ pc = "prompting"
    /\ Count(options, {"d"}) < MaxDescribes
    /\ options' = Append(options, "d")
    /\ \E outcome \in RemoteOutcomes :
        LET r == describe_handle(sessions, cache, args, full_completion,
                                 outcome)
        IN  /\ Handled("Describe", None, full_completion, r)
            /\ pc' = IF r.ok THEN "done" ELSE "error"
    /\ UNCHANGED inflight
    /\ UNCHANGED <<args, stdin_passed, prompt, role_class, full_completion,
                   loop_sessions, executed, sessions0, cache0, invocations>>

\* lines 234-240 and 244-253: "d" describes the command and prompts again
ShellDescribe ==
    /\ pc = "prompting"
    /\ Count(options, {"d"}) < MaxDescribes
    /\ options' = Append(options, "d")
    /\ \E outcome \in RemoteOutcomes :
        LET r == describe_handle(sessions, cache, args, full_completion,
                                 outcome)
        IN  /\ Handled("Describe", None, full_completion, r)
            /\ pc' = IF r.ok THEN "prompting" ELSE "error"
    /\ UNCHANGED inflight
    /\ UNCHANGED <<args, stdin_passed, prompt, role_class, full_completion,
                   loop_sessions, executed, sessions0, cache0, invocations>>

\* lines 241-243 with "a" among the options that run the command
ShellAbortExecutes ==
    /\ pc = "prompting"
    /\ options' = Append(options, "a")
    /\ executed' = Append(executed, full_completion)
    /\ pc' = "done"
    /\ UNCHANGED inflight
    /\ UNCHANGED <<args, stdin_passed, prompt, role_class, full_completion,
                   err, sessions, cache, calls, turns, loop_sessions,
                   sessions0, cache0, served, invocations>>

\* lines 234-240 and 254: "a" leaves the loop
ShellAbort ==
    /\ pc = "prompting"
    /\ options' = Append(options, "a")
    /\ pc' = "done"
    /\ UNCHANGED inflight
    /\ UNCHANGED <<args, stdin_passed, prompt, role_class, full_completion,
                   err, sessions, cache, calls, turns, loop_sessions,
                   executed, sessions0, cache0, served, invocations>>

\* line 234: an interrupt at the prompt makes typer.prompt raise Abort
ShellInterrupt ==
    /\ pc = "prompting"
    /\ pc' = "error"
    /\ err' = Error("Abort", 234)
    /\ UNCHANGED inflight
    /\ UNCHANGED <<args, stdin_passed, prompt, role_class, full_completion,
                   sessions, cache, calls, turns, loop_sessions, options,
                   executed, sessions0, cache0, served, invocations>>

\* the process ends: the "temp" session lives in memory only and goes with it
Exit ==
    /\ pc \in {"done", "error"}
    /\ pc' = "idle"
    /\ sessions' = [sessions EXCEPT !["temp"] = <<>>]
    /\ turns' = [turns EXCEPT !["temp"] = <<>>]
    /\ args' = NoArgs
    /\ stdin_passed' = FALSE
    /\ prompt' = None
    /\ role_class' = NoRole
    /\ full_completion' = None
    /\ err' = NoError
    /\ calls' = <<>>
    /\ options' = <<>>
    /\ executed' = <<>>
    /\ sessions0' = sessions'
    /\ loop_sessions' = sessions'
    /\ cache0' = cache
    /\ UNCHANGED inflight
    /\ UNCHANGED <<cache, served, invocations>>

Next ==
    \/ Start
    \/ ReplLine
    \/ ReplExit
    \/ ChatGenerate
    \/ DefaultGenerate
    \/ ShellExecute
    \/ ShellDescribe
    \/ ShellAbort
    \/ ShellInterrupt
    \/ Exit

Spec == Init /\ [][Next]_vars

(***************************************************************************)
(* One invocation with the handle calls of the REPL Driver and of the      *)
(* Shell Execution Loop taken step by step (section 4.4: request in        *)
(* flight, response, commit of the user message, commit of the assistant   *)
(* message) and with interrupt signals that arrive at any of these steps   *)
(* (sections 4.5 and 5).  The primary generation, which precedes the       *)
(* loop, stays one step.                                                   *)
(***************************************************************************)
Committing == {"commit0", "commit1"}
InHandle == {"generating"} \cup Committing

\* an interrupt honored wherever it arrives, the commit included
InterruptHonoredAnywhere(at) == TRUE

\* Section 5: cancellation is cooperative, honored at the Reading and
\* Prompting boundaries and, section 4.5, in a call that has not begun its
\* commit (the call then does not mutate the store); never during a commit
InterruptHonored(at) == at \in {"repl", "prompting", "generating"}

\* lines 202-209, REPL Driver Reading -> Generating: a line was read and
\* handle was called with it
ReplRead ==
    /\ pc = "repl"
    /\ ~inflight.signal
    /\ Len(calls) < MaxReplTurns
    /\ \E line \in ReplLines :
        inflight' = [inflight EXCEPT !.site = "ReplHandler", !.text = line]
    /\ pc' = "generating"
    /\ UNCHANGED <<args, stdin_passed, prompt, role_class, full_completion,
                   err, sessions, cache, calls, turns, loop_sessions,
                   options, executed, sessions0, cache0, served,
                   invocations>>

\* lines 234-240 and 244-245: "d" was chosen and the describe call begins
DescribeChosen ==
    /\ pc = "prompting"
    /\ ~inflight.signal
    /\ Count(options, {"d"}) < MaxDescribes
    /\ options' = Append(options, "d")
    /\ inflight' = [inflight EXCEPT !.site = "Describe",
                                    !.text = full_completion]
    /\ pc' = "generating"
    /\ UNCHANGED <<args, stdin_passed, prompt, role_class, full_completion,
                   err, sessions, cache, calls, turns, loop_sessions,
                   executed, sessions0, cache0, served, invocations>>

\* the call in progress, as main made it, with the outcome of the remote
\* boundary
InflightHandle(outcome) ==
    IF inflight.site = "ReplHandler"
    THEN ReplHandler_handle(sessions, cache, args, role_class, inflight.text,
                            outcome)
    ELSE describe_handle(sessions, cache, args, inflight.text, outcome)

InflightId == IF inflight.site = "ReplHandler" THEN args.repl ELSE None

\* Section 4.4, step 5: the response (or the cached text) is there and the
\* commit is next; or the remote boundary failed, and the GenerationError
\* ends the invocation with the store as it was
RemoteResponds ==
    /\ pc = "generating"
    /\ \E outcome \in RemoteOutcomes :
        LET r == InflightHandle(outcome)
        IN  IF r.ok
            THEN /\ pc' = "commit0"
                 /\ inflight' = [inflight EXCEPT !.r = <<r>>]
                 /\ UNCHANGED <<err, sessions, cache, calls, turns, served>>
            ELSE /\ pc' = "error"
                 /\ inflight' = NoCall
                 /\ Handled(inflight.site, InflightId, inflight.text, r)
    /\ UNCHANGED <<args, stdin_passed, prompt, role_class, full_completion,
                   loop_sessions, options, executed, sessions0, cache0,
                   invocations>>

\* Section 4.4, step 6, first half: the user message (after the system
\* message on a first turn) is appended to the session
CommitUserStep ==
    /\ pc = "commit0"
    /\ LET r == inflight.r[1]
       IN  sessions' = commit_user(sessions, r.chat_id,
                                   make_messages(sessions, r.prompt, r.role,
                                                 r.chat_id))
    /\ pc' = "commit1"
    /\ UNCHANGED <<args, stdin_passed, prompt, role_class, full_completion,
                   err, cache, calls, turns, loop_sessions, options,
                   executed, sessions0, cache0, served, invocations,
                   inflight>>

\* Section 4.4, step 6, second half, and step 7: the assistant message is
\* appended and handle returns; lines 202-209 read the next line, line 253
\* prompts again
CommitAssistantStep ==
    /\ pc = "commit1"
    /\ Handled(inflight.site, InflightId, inflight.text, inflight.r[1])
    /\ pc' = IF inflight.site = "ReplHandler" THEN "repl" ELSE "prompting"
    /\ inflight' = [NoCall EXCEPT !.signal = inflight.signal]
    /\ UNCHANGED <<args, stdin_passed, prompt, role_class, full_completion,
                   loop_sessions, options, executed, sessions0, cache0,
                   invocations>>

\* an interrupt signal arrives, in any state of the REPL Driver or of the
\* Shell Execution Loop
Signal ==
    /\ \/ pc \in {"repl", "prompting"}
       \/ pc \in InHandle
    /\ ~inflight.signal
    /\ inflight' = [inflight EXCEPT !.signal = TRUE]
    /\ UNCHANGED <<pc, args, stdin_passed, prompt, role_class,
                   full_completion, err, sessions, cache, calls, turns,
                   loop_sessions, options, executed, sessions0, cache0,
                   served, invocations>>

\* the waiting interrupt is honored: the REPL Driver goes to Exited, the
\* Shell Execution Loop ends with typer's Abort, a call in flight is
\* abandoned with what it had not yet committed
Honor ==
    /\ inflight.signal
    /\ pc \in {"repl", "prompting"} \cup InHandle
    /\ InterruptHonored(pc)
    /\ pc' = IF pc = "repl" THEN Exited ELSE "error"
    /\ err' = IF pc = "repl" THEN err
              ELSE IF pc = "prompting" THEN Error("Abort", 234)
              ELSE Error("KeyboardInterrupt", 0)
    /\ inflight' = NoCall
    /\ UNCHANGED <<args, stdin_passed, prompt, role_class, full_completion,
                   sessions, cache, calls, turns, loop_sessions, options,
                   executed, sessions0, cache0, served, invocations>>

NextInterrupt ==
    \/ Start
    \/ ReplRead
    \/ ReplExit
    \/ ChatGenerate
    \/ DefaultGenerate
    \/ ShellExecute
    \/ DescribeChosen
    \/ ShellAbort
    \/ ShellInterrupt
    \/ RemoteResponds
    \/ CommitUserStep
    \/ CommitAssistantStep
    \/ Signal
    \/ Honor

\* one invocation of main under interrupt signals
InterruptSpec == Init /\ [][NextInterrupt]_vars

\* the user at the prompt of line 234 does not answer "d" for ever: a choice
\* that ends the loop ("e", "y" or "a") is eventually given
FairUser == WF_vars(ShellExecute \/ ShellAbort)

\* main with a user who eventually gives a choice other than "d"
FairSpec == Spec /\ FairUser

(***************************************************************************)
(* The claims.                                                             *)
(***************************************************************************)
Running == pc # "idle"
ConfigurationErrors == {"MissingParameter", "BadArgumentUsage", "NotFoundError"}
PrimaryHandlers == {"ReplHandler", "ChatHandler", "DefaultHandler"}
Last(seq) == seq[Len(seq)]

\* no handler was called, nothing was generated, no session and no cache
\* entry changed, the Shell Execution Loop was not entered
NoEffect ==
    /\ calls = <<>>
    /\ full_completion = None
    /\ sessions = sessions0
    /\ cache = cache0
    /\ options = <<>>
    /\ executed = <<>>

\* C1: an invocation with two or more of --shell, --describe-shell, --code
\* set has failed with a usage error (the MissingParameter of line 149 when
\* there is no prompt either, the BadArgumentUsage of line 152 otherwise)
\* and has produced no completion, whatever its other parameters are.
C1_FlagConflictFails ==
    (Running /\ FlagSum(args.shell, args.describe_shell, args.code) >= 2)
        => /\ pc = "error"
           /\ err \in {Error("MissingParameter", 149),
                       Error("BadArgumentUsage", 152)}
           /\ calls = <<>>
           /\ full_completion = None

\* C1: all three flags set, with a role, a REPL id and a prompt: refused at
\* line 152.
C1_Witness ==
    /\ pc = "error"
    /\ err = Error("BadArgumentUsage", 152)
    /\ args.shell /\ args.describe_shell /\ args.code
    /\ args.role = "r1" /\ args.repl = "c1" /\ args.prompt = "p1"

\* C2: an invocation that ended in a configuration error, or that has
\* conflicting flags or an explicit role that does not exist, made no handle
\* call, changed no chat session and no cache entry, and never entered the
\* Shell Execution Loop.
C2_ConfigurationErrorNoEffect ==
    /\ (pc = "error" /\ err.type \in ConfigurationErrors) => NoEffect
    /\ (Running /\ (\/ FlagSum(args.shell, args.describe_shell, args.code) >= 2
                    \/ (Truthy(args.role) /\ args.role \notin StoredRoles)))
           => (pc = "error" /\ err.type \in ConfigurationErrors /\ NoEffect)

\* C2: --role names a role that does not exist, in an invocation that would
\* otherwise have generated a shell command into session c1.
C2_Witness ==
    /\ pc = "error"
    /\ err = Error("NotFoundError", 189)
    /\ args.role = "r0" /\ args.chat = "c1" /\ args.shell
    /\ args.prompt = "p1" /\ ~stdin_passed

\* the role the parameters select: the custom role named by --role, else
\* the built-in role of the set flag
SelectedBy(a, role) ==
    IF Truthy(a.role) THEN role.kind = "custom" /\ role.name = a.role
    ELSE /\ a.shell => role = SHELL
         /\ a.describe_shell => role = DESCRIBE_SHELL
         /\ a.code => role = CODE
         /\ ~(a.shell \/ a.describe_shell \/ a.code) => role = DEFAULT

\* C3: every primary handler call of an invocation was handed the same
\* role: the custom role named by --role when --role is given (never the
\* built-in role of the set flag), the built-in role of the set flag
\* otherwise.
C3_ExplicitRoleOverrides ==
    \A i \in 1..Len(calls) :
        calls[i].handler \in PrimaryHandlers
            => /\ SelectedBy(args, calls[i].role)
               /\ calls[i].role = role_class
               /\ Truthy(args.role) => calls[i].role \notin BuiltinRoles

\* C3: --shell and --role r1 together: the ChatHandler call got role r1.
C3_Witness ==
    /\ Len(calls) >= 1
    /\ calls[1].handler = "ChatHandler"
    /\ args.role = "r1" /\ args.shell
    /\ calls[1].role = Role("custom", "r1")
    /\ calls[1].ok

\* role resolution was reached: none of the checks of lines 148-160 raised
Resolved ==
    Running /\ ~(pc = "error" /\ err.line \in {149, 152, 157, 160})

\* C4: with at most one flag set and no --role, role resolution always
\* yields a role, and that role is a function of the flags alone:
\* shell-command for --shell, describe-shell for --describe-shell, code-only
\* for --code, the plain default for no flag.
C4_BuiltinResolutionTotal ==
    (/\ Resolved
     /\ ~Truthy(args.role)
     /\ FlagSum(args.shell, args.describe_shell, args.code) <= 1)
        => /\ role_class \in BuiltinRoles
           /\ role_class =
                (CASE args.shell -> SHELL
                   [] args.describe_shell -> DESCRIBE_SHELL
                   [] args.code -> CODE
                   [] OTHER -> DEFAULT)
           /\ ~(pc = "error" /\ err.type = "NotFoundError")

\* C4: --describe-shell alone resolved to the describe-shell role.
C4_Witness ==
    /\ pc = "generate"
    /\ args.describe_shell /\ ~args.shell /\ ~args.code /\ args.role = None
    /\ role_class = DESCRIBE_SHELL

\* C5: when the remote boundary failed during a handle call made with a
\* chat_id, the session of that chat_id holds exactly the messages it held
\* before the call: neither the user message nor an assistant message was
\* added.
C5_FailedCallLeavesSession ==
    (pc = "error" /\ err = Error(Fail, 0))
        => /\ calls # <<>>
           /\ ~Last(calls).ok
           /\ Last(calls).invoked
           /\ Last(calls).chat_id # None
                => load(sessions, Last(calls).chat_id) = Last(calls).before
           /\ \A id \in ChatIds :
                (Last(calls).handler = "ChatHandler" /\ args.chat = id)
                    => load(sessions, id) = load(sessions0, id)

\* C5: the remote boundary failed on a call for a session that already held
\* messages.
C5_Witness ==
    /\ pc = "error" /\ err = Error(Fail, 0)
    /\ Last(calls).chat_id = "c1"
    /\ Len(Last(calls).before) >= 3
    /\ load(sessions, "c1") = Last(calls).before

\* the session n successful calls leave: one system message, then the user
\* and the assistant message of each call, in call order
SessionOf(ts) ==
    IF ts = <<>> THEN <<>>
    ELSE [k \in 1..(1 + 2 * Len(ts)) |->
            IF k = 1 THEN SystemMessage(ts[1].role)
            ELSE IF k % 2 = 0 THEN UserMessage(ts[k \div 2].prompt)
            ELSE AssistantMessage(ts[k \div 2].text)]

\* C6: a session holds exactly what the successful handle calls made for it
\* appended, once each, cache hit or not: after n such calls on an unseen
\* chat_id, one system message followed by n (user, assistant) pairs in
\* call order.
C6_AppendOncePerCall ==
    \A id \in ChatIds : load(sessions, id) = SessionOf(turns[id])

\* C6: session c1 holds the system message and the two pairs of its two
\* calls, and a first call for session temp, answered from the cache, left
\* it the system message and one pair.
C6_Witness ==
    /\ Len(turns["c1"]) = 2
    /\ Len(load(sessions, "c1")) = 5
    /\ calls # <<>>
    /\ Last(calls).chat_id = "temp"
    /\ Last(calls).ok /\ ~Last(calls).invoked
    /\ Len(load(sessions, "temp")) = 3

C8_NoCachePassThrough ==
    (Running /\ ~args.cache)
        => /\ cache = cache0
           /\ \A i \in 1..Len(calls) : calls[i].invoked

\* C8: with caching disabled, a request whose fingerprint the cache already
\* held invoked the remote boundary and returned another text than the
\* cached one.
C8_Witness ==
    /\ Running /\ ~args.cache
    /\ calls # <<>>
    /\ Last(calls).ok /\ Last(calls).invoked
    /\ Cached(cache0, Last(calls).fp)
    /\ Last(calls).text # CachedText(cache0, Last(calls).fp)
    /\ cache = cache0

\* C9: in the Shell Execution Loop every chat session, the one named by
\* --chat included, holds exactly the messages it held when the loop was
\* entered, however many times "d" was chosen; the describe call is made
\* with the describe-shell role and no chat_id.
C9_DescribeLeavesSessions ==
    /\ (pc = "prompting" \/ options # <<>>) => sessions = loop_sessions
    /\ \A i \in 1..Len(calls) :
        calls[i].handler = "Describe"
            => calls[i].chat_id = None /\ calls[i].role = DESCRIBE_SHELL

\* C9: "d" was chosen twice in an invocation with --chat c1, whose session
\* holds the generated command.
C9_Witness ==
    /\ pc = "prompting"
    /\ options = <<"d", "d">>
    /\ args.chat = "c1"
    /\ Len(load(sessions, "c1")) = 3
    /\ Last(calls).handler = "Describe" /\ Last(calls).ok

\* C10: the command is run at most once in an invocation; it is run exactly
\* once for a choice of "e" or "y", that choice is the last one, and the
\* loop has ended.
C10_ExecuteOnceThenDone ==
    /\ Len(executed) = Count(options, {"e", "y"})
    /\ Len(executed) <= 1
    /\ \A i \in 1..Len(options) :
        options[i] \in {"e", "y"}
            => /\ i = Len(options)
               /\ pc = "done"
               /\ executed = <<full_completion>>

\* C10: the legacy "y", after a describe, ran the command and ended the loop.
C10_Witness ==
    /\ options = <<"d", "y">>
    /\ executed = <<full_completion>>
    /\ full_completion \in Texts
    /\ pc = "done"

\* the step is the choice of option o at the prompt of line 234
Chose(o) == Len(options') = Len(options) + 1 /\ Last(options') = o

\* C11: the choice of "a" ends the loop and changes nothing else: the
\* command is not run, no handle call is made, no chat session and no cache
\* entry changes.
C11_AbortNoSideEffect ==
    [][Chose("a") => /\ pc' = "done"
                     /\ executed' = executed /\ executed = <<>>
                     /\ calls' = calls
                     /\ sessions' = sessions
                     /\ cache' = cache
                     /\ served' = served
                     /\ full_completion' = full_completion]_vars

\* C11: "a" chosen after a describe, in an invocation with --chat c1 and
\* caching: the loop has ended and nothing was run.
C11_Witness ==
    /\ options = <<"d", "a">>
    /\ pc = "done"
    /\ executed = <<>>
    /\ args.chat = "c1" /\ args.cache
    /\ Len(calls) = 2

\* C12: in an invocation without --shell, or with piped standard input, the
\* user is never asked to execute, describe or abort and nothing is run.
C12_LoopOnlyShellInteractive ==
    (Running /\ (~args.shell \/ stdin_passed))
        => /\ pc # "prompting"
           /\ options = <<>>
           /\ executed = <<>>

\* C12: --shell with piped standard input: the command was generated and
\* main returned without a prompt.
C12_Witness ==
    /\ pc = "done"
    /\ args.shell /\ stdin_passed
    /\ full_completion \in Texts
    /\ Len(calls) = 1 /\ calls[1].role = SHELL
    /\ options = <<>> /\ executed = <<>>

OneDescribeCall ==
    /\ Len(calls') = Len(calls) + 1
    /\ SubSeq(calls', 1, Len(calls)) = calls
    /\ Last(calls').handler = "Describe"
    /\ Last(calls').role = DESCRIBE_SHELL
    /\ Last(calls').prompt = full_completion
    /\ Last(calls').chat_id = None
    /\ full_completion' = full_completion
    /\ executed' = executed

\* C14 as stated: every choice of "d" makes exactly one handle call with
\* the describe-shell role on the generated command and is followed by a new
\* prompt, whatever the call's outcome.
C14_DescribeAlwaysPrompts ==
    [][Chose("d") => (OneDescribeCall /\ pc' = "prompting")]_vars

\* C14, amended: every choice of "d" makes exactly one handle call with the
\* describe-shell role on the generated command; when that call returns, the
\* loop goes on with a new prompt (it never ends on "d"), and when the call
\* fails the GenerationError ends the invocation.
C14_DescribeThenPrompt ==
    [][Chose("d") =>
        /\ OneDescribeCall
        /\ Last(calls').ok => (pc' = "prompting" /\ err' = NoError)
        /\ ~Last(calls').ok => (pc' = "error" /\ err'.type = Fail)]_vars

\* C14: two describes were made and the user is prompted again.
C14_Witness ==
    /\ pc = "prompting"
    /\ options = <<"d", "d">>
    /\ Len(calls) = 3
    /\ calls[2].role = DESCRIBE_SHELL /\ calls[3].role = DESCRIBE_SHELL
    /\ calls[2].prompt = full_completion /\ calls[3].prompt = full_completion
    /\ calls[3].ok

\* C15: every handle call of the REPL is made with the id given by --repl,
\* and no session but that one changes while the REPL runs; the temporary
\* session is touched only when --repl temp was given.
C15_ReplUsesItsId ==
    (Running /\ Truthy(args.repl))
        => /\ \A i \in 1..Len(calls) :
                /\ calls[i].handler = "ReplHandler"
                /\ calls[i].chat_id = args.repl
           /\ \A id \in ChatIds \ {args.repl} : sessions[id] = sessions0[id]
           /\ args.repl # "temp" => sessions["temp"] = <<>>

\* C15: a REPL on c1 has made two turns: c1 holds them, temp is empty.
C15_Witness ==
    /\ pc = "repl"
    /\ args.repl = "c1"
    /\ Len(calls) = 2 /\ calls[1].ok /\ calls[2].ok
    /\ Len(sessions["c1"]) = 5
    /\ sessions["temp"] = <<>>

IsPrefix(s, t) == Len(s) <= Len(t) /\ SubSeq(t, 1, Len(s)) = s

\* C16: a session that is not the temporary one only grows at its end: in
\* every step its messages are a prefix of what it holds afterwards, and a
\* successful handle call on it leaves the user message and then the
\* assistant message as its last two messages.
C16_AppendOnly ==
    [][\A id \in ChatIds \ {"temp"} :
        /\ IsPrefix(sessions[id], sessions'[id])
        /\ (/\ Len(calls') = Len(calls) + 1
            /\ Last(calls').ok
            /\ Last(calls').chat_id = id)
           => LET n == Len(sessions'[id])
              IN  /\ n >= Len(sessions[id]) + 2
                  /\ sessions'[id][n - 1] = UserMessage(Last(calls').prompt)
                  /\ sessions'[id][n] = AssistantMessage(Last(calls').text)]_vars

\* C16: c1 was extended by a second invocation: it holds two turns, the
\* first one from the process before.
C16_Witness ==
    /\ invocations = 2
    /\ args.chat = "c1"
    /\ Len(sessions0["c1"]) = 3
    /\ Len(sessions["c1"]) = 5
    /\ IsPrefix(sessions0["c1"], sessions["c1"])

\* C18: the command offered and executed by the Shell Execution Loop is the
\* text the primary generation returned (ChatHandler with --chat, else
\* DefaultHandler): full_completion keeps that text through every describe,
\* every describe is made on it, and only it is ever run.
C18_CommandIsPrimaryText ==
    (Running /\ (pc = "prompting" \/ options # <<>> \/ executed # <<>>))
        => /\ calls # <<>>
           /\ calls[1].ok
           /\ calls[1].handler =
                IF Truthy(args.chat) THEN "ChatHandler" ELSE "DefaultHandler"
           /\ full_completion = calls[1].text
           /\ \A i \in 1..Len(executed) : executed[i] = calls[1].text
           /\ \A i \in 2..Len(calls) :
                /\ calls[i].handler = "Describe"
                /\ calls[i].prompt = calls[1].text

\* C18: the command was described, the explanation is another text than the
\* command, and the command was then run.
C18_Witness ==
    /\ pc = "done"
    /\ options = <<"d", "e">>
    /\ Len(calls) = 2 /\ calls[2].ok
    /\ calls[2].text # calls[1].text
    /\ executed = <<calls[1].text>>

DescribeCalls == {i \in 1..Len(calls) : calls[i].handler = "Describe"}

\* C19: with a user who eventually gives a choice other than "d", the Shell
\* Execution Loop always ends, and at every moment the describe calls made
\* are as many as the "d" choices given.
C19_LoopTerminates ==
    /\ [](Cardinality(DescribeCalls) = Count(options, {"d"}))
    /\ (pc = "prompting") ~> (pc \in {"done", "error"})

\* C19: the loop has ended with "a" after two describes and two describe
\* calls.
C19_Witness ==
    /\ pc = "done"
    /\ options = <<"d", "d", "a">>
    /\ Cardinality(DescribeCalls) = 2

Whole == \A id \in ChatIds : load(sessions, id) = SessionOf(turns[id])

====
